---- MODULE Spec2Model ----
(***************************************************************************)
(* The coffee-shop backend: the requires_auth pipeline of auth/auth.py     *)
(* (header extraction, unverified header, key-set fetch, key selection,    *)
(* jwt.decode, permission check) in front of the drink handlers of api.py. *)
(*                                                                         *)
(* Strings that the code takes apart are sequences of atoms: an atom is a  *)
(* space, a tab, a dot, a scheme word, or one base64url segment of a       *)
(* token.  The content of a segment is given by decoding tables.           *)
(***************************************************************************)
EXTENDS Integers, Sequences, FiniteSets, TLC

VARIABLES
    drinks,             \* the drink table: id -> row
    route,              \* the operation the request is dispatched to
    auth,               \* request.headers.get("Authorization")
    rid,                \* the <int:id> path argument
    body,               \* request.get_json()
    permission,         \* the permission the route's decorator was given
    pc,                 \* the position of the request in wrapper()
    token,              \* the result of get_token_auth_header()
    unverified_header,  \* the result of jwt.get_unverified_header(token)
    jwts,               \* the parsed key set
    sameObj,            \* whether equal kid strings are one object
    jwts_key,           \* the key the loop selected ({} when none)
    payload,            \* what verify_decode_jwt returned
    exc,                \* the exception that ended the request, if any
    response,           \* what the transport layer answers
    stages,             \* the stages that ran, in order
    fetches,            \* the number of urlopen calls of this request
    handlerArg,         \* the first argument the handler was called with
    touched             \* whether the drink table was read or written

vars == << drinks, route, auth, rid, body, permission, pc, token,
           unverified_header, jwts, sameObj, jwts_key, payload, exc,
           response, stages, fetches, handlerArg, touched >>

reqVars == << route, auth, rid, body, permission >>

----------------------------------------------------------------------------
(* Bounds *)

MaxDrinks == 2      \* rows the table may come to hold
MaxKeys == 2        \* entries of a fetched key set
MaxPerms == 2       \* entries of a permissions array (SpecPerm)
Now == 10           \* the clock at verification time

----------------------------------------------------------------------------
(* Configuration, auth.py lines 8-10 *)

AUTH0_DOMAIN == "ask-auth.us.auth0.com"
ALGORITHMS == {"RS256"}
API_AUDIENCE == "coffee_shop"
ISSUER == "https://ask-auth.us.auth0.com/"

----------------------------------------------------------------------------
(* Values *)

None == [kind |-> "None"]
Unset == [kind |-> "unset"]
Dict(d) == [kind |-> "dict", value |-> d]
EmptyDict == [x \in {} |-> x]   \* a dict is a function; {} is the empty one

NoExc == [type |-> "none"]

\* AuthError(error, status_code), auth.py lines 19-22
AuthError(description, status_code) ==
    [type |-> "AuthError", description |-> description,
     status_code |-> status_code]

\* any other exception, which no handler of the pipeline catches
Raised(type) == [type |-> type]

Absent == [present |-> FALSE, value |-> << >>]
Header(v) == [present |-> TRUE, value |-> v]

----------------------------------------------------------------------------
(* str.split(' ') and str.lower() *)

RECURSIVE SplitOn(_, _)
SplitOn(s, sep) ==
    IF \A i \in 1..Len(s) : s[i] # sep
    THEN << s >>
    ELSE LET i == CHOOSE k \in 1..Len(s) :
                      s[k] = sep /\ \A j \in 1..(k - 1) : s[j] # sep
         IN  << SubSeq(s, 1, i - 1) >> \o SplitOn(SubSeq(s, i + 1, Len(s)), sep)

LowerAtom(a) ==
    CASE a = "Bearer" -> "bearer"
      [] a = "BEARER" -> "bearer"
      [] a = "Token"  -> "token"
      [] OTHER        -> a

Lower(s) == [i \in 1..Len(s) |-> LowerAtom(s[i])]

----------------------------------------------------------------------------
(* get_token_auth_header, auth.py lines 37-55 *)

Ok(v) == [ok |-> TRUE, value |-> v]
Fail(e) == [ok |-> FALSE, exc |-> e]

MissingHeader == AuthError("Expected authorization header.", 401)
MalformedHeader == AuthError("Expected header must has two parts.", 401)
MissingBearer == AuthError("Authorization header must has a bearer.", 401)

\* extractToken as the specification words it: split at runs of whitespace
extractToken(a) ==
    IF ~a.present THEN Fail(MissingHeader)
    ELSE LET head_parts == SelectSeq(SplitOn(
                 [i \in 1..Len(a.value) |->
                     IF a.value[i] = "\t" THEN " " ELSE a.value[i]], " "),
                 LAMBDA p : p # << >>)
         IN  IF Len(head_parts) # 2 THEN Fail(MalformedHeader)
             ELSE IF Lower(head_parts[1]) # << "bearer" >>
                  THEN Fail(MissingBearer)
                  ELSE Ok(head_parts[2])

\* get_token_auth_header without the .lower() of line 50
get_token_auth_header_cs(a) ==
    IF ~a.present THEN Fail(MissingHeader)
    ELSE LET head_parts == SplitOn(a.value, " ")
         IN  IF Len(head_parts) # 2 THEN Fail(MalformedHeader)
             ELSE IF head_parts[1] # << "Bearer" >>
                  THEN Fail(MissingBearer)
                  ELSE Ok(head_parts[2])

get_token_auth_header(a) ==
    IF ~a.present THEN Fail(MissingHeader)
    ELSE LET head_parts == SplitOn(a.value, " ")
         IN  IF Len(head_parts) # 2 THEN Fail(MalformedHeader)
             ELSE IF Lower(head_parts[1]) # << "bearer" >>
                  THEN Fail(MissingBearer)
                  ELSE Ok(head_parts[2])

----------------------------------------------------------------------------
(* Tokens: segments joined by dots, and what each segment decodes to *)

HeaderSegments == {"hBad", "hNoKid", "hK1", "hK2", "hK1none"}
PayloadSegments == {"pExpired", "pBadIss", "pBadAud", "pExpiredBadAud",
                    "pNoPerms", "pEmpty", "pBarista", "pManager",
                    "pCase", "pPrefix"}
SignatureSegments == {"sN1", "sN2"}

Tokens ==
    { << >>, << "hK1" >>, << "hK1", ".", "pManager" >> }
    \cup { << h, ".", p, ".", s >> :
              h \in HeaderSegments, p \in PayloadSegments,
              s \in SignatureSegments }

Segments(t) == SplitOn(t, ".")

\* the JSON object of a header segment ("hBad" is not one)
HeaderOf(seg) ==
    CASE seg = "hNoKid"  -> [alg |-> "RS256"]
      [] seg = "hK1"     -> [alg |-> "RS256", kid |-> "k1"]
      [] seg = "hK2"     -> [alg |-> "RS256", kid |-> "k2"]
      [] seg = "hK1none" -> [alg |-> "none", kid |-> "k1"]

AllPermissions ==
    << "get:drinks-detail", "post:drinks", "patch:drinks", "delete:drinks" >>

Claims(exp, iss, aud) == [exp |-> exp, iss |-> iss, aud |-> aud]
WithPermissions(c, perms) ==
    [k \in DOMAIN c \cup {"permissions"} |->
        IF k = "permissions" THEN perms ELSE c[k]]

GoodClaims == Claims(Now + 1, ISSUER, API_AUDIENCE)

\* the JSON object of a payload segment
PayloadOf(seg) ==
    CASE seg = "pExpired" ->
            WithPermissions(Claims(Now - 1, ISSUER, API_AUDIENCE),
                            AllPermissions)
      [] seg = "pBadIss" ->
            WithPermissions(Claims(Now + 1, "https://evil.example/",
                                   API_AUDIENCE), AllPermissions)
      [] seg = "pBadAud" ->
            WithPermissions(Claims(Now + 1, ISSUER, "tea_shop"),
                            AllPermissions)
      [] seg = "pExpiredBadAud" ->
            WithPermissions(Claims(Now - 1, ISSUER, "tea_shop"),
                            AllPermissions)
      [] seg = "pNoPerms"  -> GoodClaims
      [] seg = "pEmpty"    -> WithPermissions(GoodClaims, << >>)
      [] seg = "pBarista"  ->
            WithPermissions(GoodClaims, << "get:drinks-detail" >>)
      [] seg = "pManager"  -> WithPermissions(GoodClaims, AllPermissions)
      [] seg = "pCase"     ->
            WithPermissions(GoodClaims,
                << "Get:Drinks-Detail", "Post:Drinks", "PATCH:DRINKS",
                   "Delete:drinks" >>)
      [] seg = "pPrefix"   ->
            WithPermissions(GoodClaims,
                << "get:drinks", "post:drinks-all", "patch:*", "drinks" >>)

\* the modulus of the key pair that made a signature segment
SignerOf(seg) == CASE seg = "sN1" -> "n1" [] seg = "sN2" -> "n2"

----------------------------------------------------------------------------
(* python-jose, as auth.py calls it *)

IsJWS(t) ==
    /\ Len(Segments(t)) = 3
    /\ \A i \in 1..3 : Len(Segments(t)[i]) = 1
    /\ Segments(t)[1][1] \in HeaderSegments \ {"hBad"}
    /\ Segments(t)[2][1] \in PayloadSegments
    /\ Segments(t)[3][1] \in SignatureSegments

\* jwt.get_unverified_header(token), auth.py line 101
jwt_get_unverified_header(t) ==
    IF IsJWS(t) THEN Ok(HeaderOf(Segments(t)[1][1]))
    ELSE Fail(Raised("JWTError"))

\* whether the signature segment verifies under the key
SignatureVerifies(t, key) == SignerOf(Segments(t)[3][1]) = key.n

\* jwt.decode(token, key, algorithms, audience, issuer), auth.py lines
\* 124-130: the algorithm and the signature first, then exp, aud and iss in
\* that order; an absent exp or aud is not checked, an absent iss is refused
jwt_decode(t, key, algorithms, audience, issuer) ==
    LET header == HeaderOf(Segments(t)[1][1])
        claims == PayloadOf(Segments(t)[2][1])
    IN  IF header.alg \notin algorithms THEN Fail(Raised("JWTError"))
        ELSE IF ~SignatureVerifies(t, key) THEN Fail(Raised("JWTError"))
        ELSE IF "exp" \in DOMAIN claims /\ claims.exp < Now
             THEN Fail(Raised("ExpiredSignatureError"))
        ELSE IF "aud" \in DOMAIN claims /\ claims.aud # audience
             THEN Fail(Raised("JWTClaimsError"))
        ELSE IF "iss" \notin DOMAIN claims \/ claims.iss # issuer
             THEN Fail(Raised("JWTClaimsError"))
        ELSE Ok(claims)

----------------------------------------------------------------------------
(* verify_decode_jwt, auth.py lines 99-151 *)

NoKid == AuthError("Token lacks valid authentication key", 401)
ExpiredToken == AuthError("Token is expiered", 401)
InvalidClaims ==
    AuthError("Please check the claims of the decode function", 401)
UnparseableToken == AuthError("Unable to parse authentication token", 401)

\* lines 103-106
kid_check(h) == IF "kid" \notin DOMAIN h THEN Fail(NoKid) ELSE Ok(h)

\* the published keys
KeyOf(kid) ==
    CASE kid = "k1" -> [kid |-> "k1", kty |-> "RSA", use |-> "sig",
                        n |-> "n1", e |-> "AQAB"]
      [] kid = "k2" -> [kid |-> "k2", kty |-> "RSA", use |-> "sig",
                        n |-> "n2", e |-> "AQAB"]

KeySets ==
    UNION { [1..n -> {KeyOf("k1"), KeyOf("k2")}] : n \in 0..MaxKeys }

\* what urlopen + json.loads come to, lines 108-109: an exception, or
\* the parsed document
FetchFailures == {"URLError", "HTTPError", "JSONDecodeError"}

\* `a is b` on two strings, line 113: identity implies equality, and
\* whether equal strings are one object is up to the runtime
StrIs(a, b, same) == a = b /\ same

\* lines 111-120: the loop keeps the last entry that matches
RECURSIVE SelectKey(_, _, _)
SelectKey(h, keys, same) ==
    IF keys = << >> THEN EmptyDict
    ELSE LET key == keys[Len(keys)]
         IN  IF StrIs(h.kid, key.kid, same)
             THEN [kid |-> key.kid, kty |-> key.kty, use |-> key.use,
                   n |-> key.n, e |-> key.e]
             ELSE SelectKey(h, SubSeq(keys, 1, Len(keys) - 1), same)

Truthy(d) == DOMAIN d # {}

\* lines 122-147: the try block around jwt.decode
DecodeWithKey(t, key) ==
    LET r == jwt_decode(t, key, ALGORITHMS, API_AUDIENCE, ISSUER)
    IN  IF r.ok THEN Ok(Dict(r.value))
        ELSE IF r.exc.type = "ExpiredSignatureError" THEN Fail(ExpiredToken)
        ELSE IF r.exc.type = "JWTClaimsError" THEN Fail(InvalidClaims)
        ELSE Fail(UnparseableToken)

----------------------------------------------------------------------------
(* check_permissions, auth.py lines 71-82 *)

PermissionsAbsent ==
    AuthError("Permissions is not included in the payload", 400)
PermissionDenied ==
    AuthError("Permission is not found in the payload", 403)

\* a case-folding table for the permission strings of the model
FoldPermission(p) ==
    CASE p = "Get:Drinks-Detail" -> "get:drinks-detail"
      [] p = "Post:Drinks"       -> "post:drinks"
      [] p = "PATCH:DRINKS"      -> "patch:drinks"
      [] p = "Delete:drinks"     -> "delete:drinks"
      [] OTHER                   -> p

Contains(seq, x) == \E i \in 1..Len(seq) : seq[i] = x

\* check_permissions comparing case-folded strings
check_permissions_fold(perm, p) ==
    IF p.kind # "dict" THEN Fail(Raised("TypeError"))
    ELSE IF "permissions" \notin DOMAIN p.value THEN Fail(PermissionsAbsent)
    ELSE IF ~\E i \in 1..Len(p.value.permissions) :
                FoldPermission(p.value.permissions[i]) = FoldPermission(perm)
         THEN Fail(PermissionDenied)
    ELSE Ok(TRUE)

\* check_permissions without its two raises
check_permissions_open(perm, p) == Ok(TRUE)

check_permissions(perm, p) ==
    IF p.kind # "dict" THEN Fail(Raised("TypeError"))
    ELSE IF "permissions" \notin DOMAIN p.value THEN Fail(PermissionsAbsent)
    ELSE IF ~Contains(p.value.permissions, perm) THEN Fail(PermissionDenied)
    ELSE Ok(TRUE)

----------------------------------------------------------------------------
(* The transport layer: routes and error handlers of api.py *)

ProtectedRoutes ==
    {"GET /drinks-detail", "POST /drinks", "PATCH /drinks/<id>",
     "DELETE /drinks/<id>"}
Routes == {"GET /drinks"} \cup ProtectedRoutes

\* the argument of each route's @requires_auth, api.py lines 54, 77, 108, 147
RequiredPermission(r) ==
    CASE r = "GET /drinks-detail"  -> "get:drinks-detail"
      [] r = "POST /drinks"        -> "post:drinks"
      [] r = "PATCH /drinks/<id>"  -> "patch:drinks"
      [] r = "DELETE /drinks/<id>" -> "delete:drinks"
      [] OTHER                     -> ""

Aborted(code) == [type |-> "HTTPException", status_code |-> code]

NoResponse == [status |-> 0]

ErrorBody(status, message) ==
    [status |-> status, success |-> FALSE, message |-> message]

\* the error handlers, api.py lines 169-238; an exception no handler is
\* registered for is answered by the 500 handler
Respond(e) ==
    CASE e.type = "AuthError" -> ErrorBody(e.status_code, e.description)
      [] e.type = "HTTPException" /\ e.status_code = 400 ->
            ErrorBody(400, "Bad Request")
      [] e.type = "HTTPException" /\ e.status_code = 404 ->
            ErrorBody(404, "Not Found Resource")
      [] OTHER -> ErrorBody(500, "Internal Server Error")

----------------------------------------------------------------------------
(* The drink table.  database/models.py is not among the sources: a row is *)
(* a title and a recipe under an integer key, and no operation fails.      *)

RECURSIVE Ascending(_)
Ascending(S) ==
    IF S = {} THEN << >>
    ELSE LET m == CHOOSE x \in S : \A y \in S : x <= y
         IN  << m >> \o Ascending(S \ {m})

Long(id) == [id |-> id, title |-> drinks[id].title,
             recipe |-> drinks[id].recipe]
Short(id) == [id |-> id, title |-> drinks[id].title]

\* Drink.query.all(), rendered
AllLong == [i \in 1..Cardinality(DOMAIN drinks) |->
               Long(Ascending(DOMAIN drinks)[i])]
AllShort == [i \in 1..Cardinality(DOMAIN drinks) |->
                Short(Ascending(DOMAIN drinks)[i])]

NewId == IF DOMAIN drinks = {} THEN 1
         ELSE (CHOOSE x \in DOMAIN drinks : \A y \in DOMAIN drinks : y <= x) + 1

Put(id, row) ==
    [k \in DOMAIN drinks \cup {id} |-> IF k = id THEN row ELSE drinks[k]]
Remove(id) == [k \in DOMAIN drinks \ {id} |-> drinks[k]]

Bodies == { [title |-> "latte", recipe |-> "espresso+milk"],
            [title |-> "mocha"] }

----------------------------------------------------------------------------
(* Requests *)

Bearer(t) == << "Bearer", " " >> \o t

SampleToken == << "hK1", ".", "pManager", ".", "sN1" >>

\* header values around a token: schemes, separators, trailing text
Schemes == { << >>, << "Bearer" >>, << "BEARER" >>, << "bearer" >>,
             << "Token" >> }
Separators == { << >>, << " " >>, << " ", " " >>, << "\t" >> }
Trailers == { << >>, << " " >>, << " ", "x" >> }

HeaderValues(toks) ==
    { s \o sep \o t \o tr :
        s \in Schemes, sep \in Separators, t \in toks, tr \in Trailers }

\* the Authorization headers of the requests of Spec
RequestHeaders ==
    {Absent}
    \cup { Header(Bearer(t)) : t \in Tokens }
    \cup { Header(v) : v \in HeaderValues({SampleToken}) }

\* the Authorization headers of SpecHeader
AllHeaders == {Absent} \cup { Header(v) : v \in HeaderValues(Tokens) }

----------------------------------------------------------------------------
(* The state machine *)

\* the state of wrapper() before a request is in it
Fresh(t, h, ks, so, k, p, e, rsp, st, n, arg, tch) ==
    /\ t = << >>
    /\ h = EmptyDict
    /\ ks = << >>
    /\ so = FALSE
    /\ k = EmptyDict
    /\ p = Unset
    /\ e = NoExc
    /\ rsp = NoResponse
    /\ st = << >>
    /\ n = 0
    /\ arg = Unset
    /\ tch = FALSE

Init ==
    /\ drinks = EmptyDict
    /\ route = "GET /drinks"
    /\ auth = Absent
    /\ rid = 0
    /\ body = EmptyDict
    /\ permission = ""
    /\ pc = "idle"
    /\ Fresh(token, unverified_header, jwts, sameObj, jwts_key, payload, exc,
             response, stages, fetches, handlerArg, touched)

\* the stage a failure ends: the exception leaves wrapper() and the
\* transport layer answers it
Raise(e) ==
    /\ exc' = e
    /\ response' = Respond(e)
    /\ pc' = "done"

Ran(stage) == stages' = Append(stages, stage)

\* a request arrives and Flask dispatches it to its route
NewRequest ==
    /\ pc = "idle"
    /\ \E r \in Routes :
          /\ route' = r
          /\ permission' = RequiredPermission(r)
          /\ auth' \in (IF r \in ProtectedRoutes THEN RequestHeaders
                        ELSE {Absent, Header(Bearer(SampleToken))})
          /\ rid' \in (IF r \in {"PATCH /drinks/<id>", "DELETE /drinks/<id>"}
                       THEN 1..MaxDrinks ELSE {0})
          /\ body' \in (IF r \in {"POST /drinks", "PATCH /drinks/<id>"}
                        THEN Bodies ELSE {EmptyDict})
          /\ (r = "POST /drinks" /\ "recipe" \in DOMAIN body')
                => Cardinality(DOMAIN drinks) < MaxDrinks
          /\ pc' = IF r \in ProtectedRoutes THEN "extract" ELSE "handler"
    /\ Fresh(token', unverified_header', jwts', sameObj', jwts_key', payload',
             exc', response', stages', fetches', handlerArg', touched')
    /\ UNCHANGED drinks

\* wrapper, auth.py line 172
ExtractHeader ==
    /\ pc = "extract"
    /\ Ran("extract")
    /\ LET r == get_token_auth_header(auth)
       IN  IF r.ok
           THEN /\ token' = r.value
                /\ pc' = "parse"
                /\ UNCHANGED << exc, response >>
           ELSE /\ Raise(r.exc)
                /\ UNCHANGED token
    /\ UNCHANGED << drinks, reqVars, unverified_header, jwts, sameObj,
                    jwts_key, payload, fetches, handlerArg, touched >>

\* verify_decode_jwt, auth.py lines 101-106
ParseUnverifiedHeader ==
    /\ pc = "parse"
    /\ Ran("parse")
    /\ LET h == jwt_get_unverified_header(token)
           r == IF h.ok THEN kid_check(h.value) ELSE h
       IN  IF r.ok
           THEN /\ unverified_header' = r.value
                /\ pc' = "fetch"
                /\ UNCHANGED << exc, response >>
           ELSE /\ Raise(r.exc)
                /\ UNCHANGED unverified_header
    /\ UNCHANGED << drinks, reqVars, token, jwts, sameObj, jwts_key, payload,
                    fetches, handlerArg, touched >>

\* verify_decode_jwt, auth.py lines 108-109: the fetch fails
FetchKeySetFails ==
    /\ pc = "fetch"
    /\ Ran("fetch")
    /\ fetches' = fetches + 1
    /\ \E f \in FetchFailures : Raise(Raised(f))
    /\ UNCHANGED << drinks, reqVars, token, unverified_header, jwts, sameObj,
                    jwts_key, payload, handlerArg, touched >>

\* verify_decode_jwt, auth.py lines 108-109: the provider answers a key set
FetchKeySet ==
    /\ pc = "fetch"
    /\ Ran("fetch")
    /\ fetches' = fetches + 1
    /\ jwts' \in KeySets
    /\ sameObj' \in BOOLEAN
    /\ pc' = "select"
    /\ UNCHANGED << drinks, reqVars, token, unverified_header, jwts_key,
                    payload, exc, response, handlerArg, touched >>

\* verify_decode_jwt, auth.py lines 111-122: with no key selected the
\* function falls off its end and returns None
SelectKeyStep ==
    /\ pc = "select"
    /\ Ran("select")
    /\ jwts_key' = SelectKey(unverified_header, jwts, sameObj)
    /\ IF Truthy(jwts_key')
       THEN pc' = "decode" /\ UNCHANGED payload
       ELSE pc' = "check" /\ payload' = None
    /\ UNCHANGED << drinks, reqVars, token, unverified_header, jwts, sameObj,
                    exc, response, fetches, handlerArg, touched >>

\* verify_decode_jwt, auth.py lines 123-147
DecodeToken ==
    /\ pc = "decode"
    /\ Ran("decode")
    /\ LET r == DecodeWithKey(token, jwts_key)
       IN  IF r.ok
           THEN /\ payload' = r.value
                /\ pc' = "check"
                /\ UNCHANGED << exc, response >>
           ELSE /\ Raise(r.exc)
                /\ UNCHANGED payload
    /\ UNCHANGED << drinks, reqVars, token, unverified_header, jwts, sameObj,
                    jwts_key, fetches, handlerArg, touched >>

\* wrapper, auth.py line 174
CheckPermissions ==
    /\ pc = "check"
    /\ Ran("check")
    /\ LET r == check_permissions(permission, payload)
       IN  IF r.ok
           THEN pc' = "handler" /\ UNCHANGED << exc, response >>
           ELSE Raise(r.exc)
    /\ UNCHANGED << drinks, reqVars, token, unverified_header, jwts, sameObj,
                    jwts_key, payload, fetches, handlerArg, touched >>

pipelineVars == << token, unverified_header, jwts, sameObj, jwts_key,
                   payload, fetches >>

\* api.py lines 33-40
ShowDrinks ==
    /\ pc = "handler" /\ route = "GET /drinks"
    /\ Ran("handler")
    /\ touched' = TRUE
    /\ response' = [status |-> 200, success |-> TRUE, drinks |-> AllShort]
    /\ pc' = "done"
    /\ UNCHANGED << drinks, reqVars, pipelineVars, exc, handlerArg >>

\* api.py lines 53-61, called by wrapper at auth.py line 175
ShowFullDetailsDrinks ==
    /\ pc = "handler" /\ route = "GET /drinks-detail"
    /\ Ran("handler")
    /\ handlerArg' = payload
    /\ touched' = TRUE
    /\ response' = [status |-> 200, success |-> TRUE, drinks |-> AllLong]
    /\ pc' = "done"
    /\ UNCHANGED << drinks, reqVars, pipelineVars, exc >>

\* api.py lines 76-90
AddNewDrink ==
    /\ pc = "handler" /\ route = "POST /drinks"
    /\ Ran("handler")
    /\ handlerArg' = payload
    /\ IF {"title", "recipe"} \subseteq DOMAIN body
       THEN /\ drinks' = Put(NewId, [title |-> body.title,
                                     recipe |-> body.recipe])
            /\ touched' = TRUE
            /\ response' = [status |-> 200, success |-> TRUE,
                            drinks |-> << [id |-> NewId,
                                           title |-> body.title,
                                           recipe |-> body.recipe] >>]
            /\ pc' = "done"
            /\ UNCHANGED exc
       ELSE /\ Raise(Aborted(400))
            /\ UNCHANGED << drinks, touched >>
    /\ UNCHANGED << reqVars, pipelineVars >>

\* api.py lines 107-130
ChangeDrinkContent ==
    /\ pc = "handler" /\ route = "PATCH /drinks/<id>"
    /\ Ran("handler")
    /\ handlerArg' = payload
    /\ touched' = TRUE
    /\ IF rid \notin DOMAIN drinks
       THEN Raise(Aborted(404)) /\ UNCHANGED drinks
       ELSE LET row == [title |-> IF "title" \in DOMAIN body
                                  THEN body.title ELSE drinks[rid].title,
                        recipe |-> IF "recipe" \in DOMAIN body
                                   THEN body.recipe ELSE drinks[rid].recipe]
            IN  /\ drinks' = Put(rid, row)
                /\ response' = [status |-> 200, success |-> TRUE,
                                drinks |-> << [id |-> rid,
                                               title |-> row.title,
                                               recipe |-> row.recipe] >>]
                /\ pc' = "done"
                /\ UNCHANGED exc
    /\ UNCHANGED << reqVars, pipelineVars >>

\* api.py lines 146-160
DeleteDrink ==
    /\ pc = "handler" /\ route = "DELETE /drinks/<id>"
    /\ Ran("handler")
    /\ handlerArg' = payload
    /\ touched' = TRUE
    /\ IF rid \notin DOMAIN drinks
       THEN Raise(Aborted(404)) /\ UNCHANGED drinks
       ELSE /\ drinks' = Remove(rid)
            /\ response' = [status |-> 200, success |-> TRUE,
                            deleted_id |-> rid]
            /\ pc' = "done"
            /\ UNCHANGED exc
    /\ UNCHANGED << reqVars, pipelineVars >>

\* the response is sent and the request context is torn down
CloseRequest ==
    /\ pc = "done"
    /\ pc' = "idle"
    /\ route' = "GET /drinks"
    /\ auth' = Absent
    /\ rid' = 0
    /\ body' = EmptyDict
    /\ permission' = ""
    /\ Fresh(token', unverified_header', jwts', sameObj', jwts_key', payload',
             exc', response', stages', fetches', handlerArg', touched')
    /\ UNCHANGED drinks

Next ==
    \/ NewRequest
    \/ CloseRequest
    \/ ExtractHeader
    \/ ParseUnverifiedHeader
    \/ FetchKeySetFails
    \/ FetchKeySet
    \/ SelectKeyStep
    \/ DecodeToken
    \/ CheckPermissions
    \/ ShowDrinks
    \/ ShowFullDetailsDrinks
    \/ AddNewDrink
    \/ ChangeDrinkContent
    \/ DeleteDrink

Spec == Init /\ [][Next]_vars

----------------------------------------------------------------------------
(* The pure functions on their own: every header value, every payload *)

InitHeader ==
    /\ drinks = EmptyDict
    /\ route = "GET /drinks-detail"
    /\ permission = RequiredPermission("GET /drinks-detail")
    /\ auth \in AllHeaders
    /\ rid = 0
    /\ body = EmptyDict
    /\ pc = "extract"
    /\ Fresh(token, unverified_header, jwts, sameObj, jwts_key, payload, exc,
             response, stages, fetches, handlerArg, touched)

SpecHeader == InitHeader /\ [][ExtractHeader]_vars

PermissionStrings ==
    {"get:drinks-detail", "post:drinks", "Post:Drinks", "post:drinks-all",
     "post:", "drinks", ""}

PermissionArrays ==
    UNION { [1..n -> PermissionStrings] : n \in 0..MaxPerms }

ClaimsPayloads ==
    {Dict(GoodClaims)}
    \cup { Dict(WithPermissions(GoodClaims, a)) : a \in PermissionArrays }

InitPerm ==
    /\ drinks = EmptyDict
    /\ route = "GET /drinks-detail"
    /\ auth = Header(Bearer(SampleToken))
    /\ rid = 0
    /\ body = EmptyDict
    /\ pc = "check"
    /\ Fresh(token, unverified_header, jwts, sameObj, jwts_key, Unset, exc,
             response, stages, fetches, handlerArg, touched)
    /\ permission \in PermissionStrings
    /\ payload \in ClaimsPayloads

SpecPerm == InitPerm /\ [][CheckPermissions]_vars

----------------------------------------------------------------------------
(* What a request carries, read off its inputs *)

InStages(st) == \E i \in 1..Len(stages) : stages[i] = st

\* the header value holds exactly one space character
OneSpace(v) == Cardinality({ i \in 1..Len(v) : v[i] = " " }) = 1
SpaceAt(v) == CHOOSE i \in 1..Len(v) : v[i] = " "
SchemePart(v) == SubSeq(v, 1, SpaceAt(v) - 1)
TokenPart(v) == SubSeq(v, SpaceAt(v) + 1, Len(v))

IsWhitespace(a) == a \in {" ", "\t"}

\* the number of whitespace-separated parts of the header value
WhitespaceParts(v) ==
    Cardinality({ i \in 1..Len(v) :
        ~IsWhitespace(v[i]) /\ (i = 1 \/ IsWhitespace(v[i - 1])) })

IsBearerWord(w) == w \in { << "Bearer" >>, << "BEARER" >>, << "bearer" >> }

\* the request carries "Authorization: <bearer> <token>" with one space
CarriesBearer ==
    auth.present /\ OneSpace(auth.value) /\ IsBearerWord(SchemePart(auth.value))

\* ... and the token is three segments whose header decodes
CarriesJWS ==
    /\ CarriesBearer
    /\ LET t == TokenPart(auth.value)
       IN  /\ Len(t) = 5 /\ t[2] = "." /\ t[4] = "."
           /\ t[1] \in HeaderSegments \ {"hBad"}
           /\ t[3] \in PayloadSegments
           /\ t[5] \in SignatureSegments

SentHeader == HeaderOf(TokenPart(auth.value)[1])
SentClaims == PayloadOf(TokenPart(auth.value)[3])
SentSigner == SignerOf(TokenPart(auth.value)[5])

CarriesKid == CarriesJWS /\ "kid" \in DOMAIN SentHeader

\* the key set was fetched and holds an entry with the token's kid
KidPublished ==
    /\ CarriesKid
    /\ InStages("select")
    /\ \E i \in 1..Len(jwts) : jwts[i].kid = SentHeader.kid

\* the token is signed, with the allowlisted algorithm, by the key pair
\* published under its kid
ValidlySigned ==
    /\ CarriesKid
    /\ SentHeader.alg = "RS256"
    /\ SentSigner = KeyOf(SentHeader.kid).n

ClaimsInForce ==
    /\ SentClaims.exp >= Now
    /\ SentClaims.iss = ISSUER
    /\ SentClaims.aud = API_AUDIENCE

Grants(perm) ==
    /\ "permissions" \in DOMAIN SentClaims
    /\ \E i \in 1..Len(SentClaims.permissions) :
          SentClaims.permissions[i] = perm

Denied401 ==
    /\ exc.type = "AuthError"
    /\ exc.status_code = 401
    /\ response.status = 401
    /\ response.success = FALSE

HandlerRan == InStages("handler") \/ touched \/ handlerArg # Unset

----------------------------------------------------------------------------
(* C1: on a protected route the handler runs, and the drink table is read  *)
(* or written, only after header extraction, signature and claims          *)
(* verification and the permission check for the route's permission have   *)
(* all succeeded in this request, and the handler's first argument is the  *)
(* verified claims; in every other run the handler is never invoked.       *)
C1_HandlerOnlyAfterPipeline ==
    (route \in ProtectedRoutes /\ HandlerRan) =>
        /\ SubSeq(stages, 1, Len(stages) - 1) =
              << "extract", "parse", "fetch", "select", "decode", "check" >>
        /\ stages[Len(stages)] = "handler"
        /\ CarriesKid
        /\ ValidlySigned
        /\ ClaimsInForce
        /\ Grants(RequiredPermission(route))
        /\ handlerArg = Dict(SentClaims)

C1_Witness ==
    /\ route = "POST /drinks"
    /\ pc = "done"
    /\ response.status = 200
    /\ touched
    /\ handlerArg = Dict(SentClaims)

(* C2: a GET /drinks-detail request with "Authorization: Bearer <token>",  *)
(* the token's kid in the fetched key set, a valid signature, exp in the   *)
(* future, the configured issuer and audience and 'get:drinks-detail'      *)
(* among its permissions ends authorized: 200 with the full drink list.    *)
C2_EndToEndSuccess ==
    ( /\ pc = "done"
      /\ route = "GET /drinks-detail"
      /\ KidPublished
      /\ ValidlySigned
      /\ ClaimsInForce
      /\ Grants("get:drinks-detail") )
    => /\ response.status = 200
       /\ response.drinks = AllLong
       /\ handlerArg = Dict(SentClaims)

(* C3: the key used for verification is the entry whose kid equals the     *)
(* token's kid in value, whether or not the two strings are one object;    *)
(* one key is selected per token, and no entry with another kid is.        *)
C3_KeySelectedByValue ==
    (InStages("select") /\ CarriesKid) =>
        IF \E i \in 1..Len(jwts) : jwts[i].kid = SentHeader.kid
        THEN Truthy(jwts_key) /\ jwts_key.kid = SentHeader.kid
        ELSE ~Truthy(jwts_key)

(* C4: when no entry of the fetched key set has the token's kid, the       *)
(* request is denied with a structured 401 AuthError: verify_decode_jwt    *)
(* does not return, and the permission check does not run.                 *)
C4_UnknownKeyDenied ==
    ( /\ pc = "done"
      /\ CarriesKid
      /\ InStages("select")
      /\ ~\E i \in 1..Len(jwts) : jwts[i].kid = SentHeader.kid )
    => /\ Denied401
       /\ payload = Unset
       /\ ~InStages("check")

(* C5: when the key-set fetch fails the request is denied with a           *)
(* structured 401 AuthError, and the protected operation does not run.     *)
C5_FetchFailureDenied ==
    ( /\ pc = "done"
      /\ stages # << >>
      /\ stages[Len(stages)] = "fetch" )
    => /\ Denied401
       /\ ~HandlerRan

(* C6: a bearer token that is not three segments with a decodable header,  *)
(* or whose signature fails under the key published for its kid, is denied *)
(* with the 401 'unparseable token' AuthError and yields no claims.        *)
C6_UnparseableTokenDenied ==
    ( /\ pc = "done"
      /\ CarriesBearer
      /\ TokenPart(auth.value) # << >>
      /\ \/ ~CarriesJWS
         \/ KidPublished /\ SentSigner # KeyOf(SentHeader.kid).n )
    => /\ Denied401
       /\ exc = UnparseableToken
       /\ payload.kind # "dict"

\* the order of the stages in wrapper() and verify_decode_jwt()
StageOrder ==
    << "extract", "parse", "fetch", "select", "decode", "check", "handler" >>
StageIndex(st) == CHOOSE i \in 1..Len(StageOrder) : StageOrder[i] = st

\* the requests that must be denied before any fetch
DeniedBeforeFetch ==
    \/ ~auth.present
    \/ auth.present /\ ~OneSpace(auth.value)
    \/ auth.present /\ OneSpace(auth.value)
          /\ ~IsBearerWord(SchemePart(auth.value))
    \/ CarriesJWS /\ "kid" \notin DOMAIN SentHeader

\* the fetch comes once, third, after a kid was read; the requests of
\* DeniedBeforeFetch end 401 with no fetch; an exception ends the request
FetchInOrder ==
    /\ fetches <= 1
    /\ fetches = Cardinality({ i \in 1..Len(stages) : stages[i] = "fetch" })
    /\ \A i, j \in 1..Len(stages) :
          i < j => StageIndex(stages[i]) < StageIndex(stages[j])
    /\ fetches = 1 =>
          /\ CarriesKid
          /\ SubSeq(stages, 1, 3) = << "extract", "parse", "fetch" >>
    /\ (route \in ProtectedRoutes /\ pc = "done" /\ DeniedBeforeFetch) =>
          /\ Denied401
          /\ fetches = 0
          /\ ~HandlerRan
    /\ exc # NoExc => pc = "done"

\* key resolution has failed: the fetched key set has no entry with the
\* token's kid
ResolveKeyFailed ==
    /\ InStages("select")
    /\ CarriesKid
    /\ ~\E i \in 1..Len(jwts) : jwts[i].kid = SentHeader.kid

(* C7: the key set is fetched at most once, and only after header          *)
(* extraction succeeded and the unverified header was found to hold a kid; *)
(* a request with no Authorization header, a malformed one, a non-bearer   *)
(* scheme or a token header without kid is denied with 401 and no fetch;   *)
(* no stage runs after a stage has failed.                                 *)
C7_StageOrder ==
    /\ FetchInOrder
    /\ ResolveKeyFailed => stages[Len(stages)] = "select"

\* the state part of C8: the outcome for each required string and payload
C8_CheckPermissionsState ==
    (stages = << "check" >> /\ payload.kind = "dict") =>
        IF "permissions" \notin DOMAIN payload.value
        THEN /\ pc = "done"
             /\ exc.type = "AuthError" /\ exc.status_code = 400
             /\ response.status = 400
        ELSE IF \A i \in 1..Len(payload.value.permissions) :
                   payload.value.permissions[i] # permission
        THEN /\ pc = "done"
             /\ exc.type = "AuthError" /\ exc.status_code = 403
             /\ response.status = 403
        ELSE /\ pc = "handler"
             /\ exc = NoExc

\* the step part of C8: the check leaves the payload as it was
C8_CheckPermissionsStep == pc = "check" => payload' = payload

(* C8: check_permissions(required, claims) fails with 400 when claims has  *)
(* no 'permissions' field, with 403 when the field holds no string equal   *)
(* to required, and succeeds otherwise; equality is of whole strings,      *)
(* case-sensitive; the claims are left unchanged.                          *)
C8_CheckPermissions ==
    []C8_CheckPermissionsState /\ [][C8_CheckPermissionsStep]_vars

C8_Witness ==
    /\ stages = << "check" >>
    /\ permission = "post:drinks"
    /\ payload.kind = "dict"
    /\ "permissions" \in DOMAIN payload.value
    /\ payload.value.permissions = << "Post:Drinks", "post:drinks-all" >>
    /\ exc.type = "AuthError" /\ exc.status_code = 403

(* C9: a validly signed token whose exp is in the past is denied with the  *)
(* 401 'token expired' AuthError even when its permissions hold the        *)
(* required one; the permission check and the operation do not run.        *)
C9_ExpiredTokenDenied ==
    ( /\ pc = "done"
      /\ route \in ProtectedRoutes
      /\ KidPublished
      /\ ValidlySigned
      /\ SentClaims.exp < Now )
    => /\ Denied401
       /\ exc = ExpiredToken
       /\ ~InStages("check")
       /\ ~HandlerRan

(* C10, as stated: get_token_auth_header fails with 401 when the header is *)
(* absent, with 401 'malformed header' exactly when the value does not     *)
(* split into exactly two whitespace-separated parts, with 401 'missing    *)
(* bearer scheme' when the first part is not 'bearer' in any case, and     *)
(* otherwise returns the second part verbatim.                             *)
C10_WhitespaceSplit ==
    ( /\ stages = << "extract" >>
      /\ auth.present => /\ auth.value # << >>
                         /\ ~IsWhitespace(auth.value[1])
                         /\ ~IsWhitespace(auth.value[Len(auth.value)]) )
    =>
        /\ (auth.present =>
              (exc = MalformedHeader <=> WhitespaceParts(auth.value) # 2))
        /\ LET r == extractToken(auth)
           IN  IF r.ok THEN pc = "parse" /\ token = r.value
               ELSE pc = "done" /\ exc = r.exc

(* C10, amended: the value is split at single space characters.  The       *)
(* header is 'malformed' exactly when it does not hold exactly one space   *)
(* (a tab does not separate; a second space or a trailing space makes a    *)
(* third part); with one space, the part before it must be 'bearer' in any *)
(* case, and the part after it is returned verbatim, empty or not.         *)
C10_SingleSpaceSplit ==
    stages = << "extract" >> =>
        IF ~auth.present
        THEN pc = "done" /\ exc = MissingHeader /\ response.status = 401
        ELSE IF ~OneSpace(auth.value)
        THEN pc = "done" /\ exc = MalformedHeader /\ response.status = 401
        ELSE IF ~IsBearerWord(SchemePart(auth.value))
        THEN pc = "done" /\ exc = MissingBearer /\ response.status = 401
        ELSE pc = "parse" /\ exc = NoExc /\ token = TokenPart(auth.value)

C10_Witness ==
    /\ stages = << "extract" >>
    /\ auth.present
    /\ OneSpace(auth.value)
    /\ SchemePart(auth.value) = << "BEARER" >>
    /\ pc = "parse"
    /\ token = SampleToken

====
